---- MODULE Spec2Model ----
(***************************************************************************)
(* A model of haussmeister/cnmf.py: the memmap builder (tiffs_to_cnmf),    *)
(* the memmap naming function (get_mmap_name) and the cached pipeline      *)
(* entry point (process_data).                                             *)
(*                                                                         *)
(* Strings are sequences of one-character strings, so that the path and    *)
(* naming functions are computed character by character.                   *)
(***************************************************************************)
EXTENDS Integers, Sequences, FiniteSets, TLC

VARIABLES
    stack,      \* the haussio_data object: frame count, frame size, raw file, shape file
    mmapfiles,  \* the Yr*.mmap files on disk: name -> content
    resfile,    \* the <stack-id>_cnmf.mat file: NoFile or its stored variables
    projfile,   \* the <stack-id>_proj.npy file: NoFile or the stored projection
    proc,       \* per caller: position in tiffs_to_cnmf / process_data and its locals
    ncalls,     \* number of calls started so far
    tc_completed, \* whether some tiffs_to_cnmf call has returned
    prev,       \* what the last process_data call that returned gave back
    cwd,        \* the entries of the current working directory
    inp,        \* input of the pure function under study
    out         \* its output

sysvars == <<stack, mmapfiles, resfile, projfile, proc, ncalls, tc_completed, prev, cwd>>
vars == <<stack, mmapfiles, resfile, projfile, proc, ncalls, tc_completed, prev, cwd, inp, out>>

(***************************************************************************)
(* Bounds of the model.                                                    *)
(***************************************************************************)
MaxBaseLen == 3
MaxSmallDim == 1

(***************************************************************************)
(* Character strings.                                                      *)
(***************************************************************************)
SLASH == "/"
USCORE == "_"
DOT == "."

Digit(k) ==
    CASE k = 0 -> "0" [] k = 1 -> "1" [] k = 2 -> "2" [] k = 3 -> "3"
      [] k = 4 -> "4" [] k = 5 -> "5" [] k = 6 -> "6" [] k = 7 -> "7"
      [] k = 8 -> "8" [] k = 9 -> "9"

\* Python's str() of a non-negative integer: its decimal digits.
RECURSIVE str(_)
str(n) ==
    IF n < 10 THEN <<Digit(n)>> ELSE str(n \div 10) \o <<Digit(n % 10)>>

\* s.rfind(ch) + 1, counted in 1-based positions: the position of the last ch, or 0.
rfind(s, ch) ==
    LET hits == {k \in 1..Len(s) : s[k] = ch}
    IN  IF hits = {} THEN 0 ELSE CHOOSE k \in hits : \A j \in hits : j <= k

AllSlashes(s) == \A k \in 1..Len(s) : s[k] = SLASH

RECURSIVE rstrip_slash(_)
rstrip_slash(s) ==
    IF s # <<>> /\ s[Len(s)] = SLASH
    THEN rstrip_slash(SubSeq(s, 1, Len(s) - 1))
    ELSE s

\* s.replace(ch, '')
RECURSIVE remove_char(_, _)
remove_char(s, ch) ==
    IF s = <<>> THEN <<>>
    ELSE (IF Head(s) = ch THEN <<>> ELSE <<Head(s)>>) \o remove_char(Tail(s), ch)

\* s.split('/'): the components between separators, empty ones included.
RECURSIVE split_slash(_)
split_slash(s) ==
    LET first == {k \in 1..Len(s) : s[k] = SLASH /\ \A j \in 1..(k - 1) : s[j] # SLASH}
    IN  IF first = {} THEN <<s>>
        ELSE LET k == CHOOSE x \in first : TRUE
             IN  <<SubSeq(s, 1, k - 1)>> \o split_slash(SubSeq(s, k + 1, Len(s)))

\* '/'.join(comps)
RECURSIVE join_slash(_)
join_slash(comps) ==
    IF comps = <<>> THEN <<>>
    ELSE IF Len(comps) = 1 THEN comps[1]
    ELSE comps[1] \o <<SLASH>> \o join_slash(Tail(comps))

\* posixpath.basename
os_path_basename(p) == SubSeq(p, rfind(p, SLASH) + 1, Len(p))

\* posixpath.dirname
os_path_dirname(p) ==
    LET head == SubSeq(p, 1, rfind(p, SLASH))
    IN  IF head # <<>> /\ ~AllSlashes(head) THEN rstrip_slash(head) ELSE head

\* posixpath.join of two parts
os_path_join(a, b) ==
    IF b # <<>> /\ b[1] = SLASH THEN b
    ELSE IF a = <<>> \/ a[Len(a)] = SLASH THEN a \o b
    ELSE a \o <<SLASH>> \o b

\* The component loop of posixpath.normpath.
RECURSIVE norm_comps(_, _, _)
norm_comps(comps, acc, initial_slashes) ==
    IF comps = <<>> THEN acc
    ELSE LET comp == Head(comps)
             rest == Tail(comps)
         IN  IF comp = <<>> \/ comp = <<DOT>>
             THEN norm_comps(rest, acc, initial_slashes)
             ELSE IF comp # <<DOT, DOT>>
                     \/ (initial_slashes = 0 /\ acc = <<>>)
                     \/ (acc # <<>> /\ acc[Len(acc)] = <<DOT, DOT>>)
             THEN norm_comps(rest, Append(acc, comp), initial_slashes)
             ELSE IF acc # <<>>
             THEN norm_comps(rest, SubSeq(acc, 1, Len(acc) - 1), initial_slashes)
             ELSE norm_comps(rest, acc, initial_slashes)

\* posixpath.normpath
os_path_normpath(p) ==
    IF p = <<>> THEN <<DOT>>
    ELSE LET initial_slashes ==
                 IF p[1] # SLASH THEN 0
                 ELSE IF Len(p) >= 2 /\ p[2] = SLASH /\ ~(Len(p) >= 3 /\ p[3] = SLASH)
                 THEN 2 ELSE 1
             path == join_slash(norm_comps(split_slash(p), <<>>, initial_slashes))
             full == [k \in 1..initial_slashes |-> SLASH] \o path
         IN  IF full = <<>> THEN <<DOT>> ELSE full

(***************************************************************************)
(* get_mmap_name                                                           *)
(***************************************************************************)
get_mmap_name_nodelim(basename, d1, d2, T, d0) ==
    LET bn == os_path_basename(os_path_normpath(basename))
        trunk == os_path_dirname(basename)
        new_path == os_path_join(trunk, remove_char(bn, USCORE))
    IN  new_path
          \o <<"_", "d", "1", "_">> \o str(d1) \o <<"d", "2", "_">> \o str(d2)
          \o <<"_", "d", "3", "_">> \o str(d0)
          \o <<"_", "o", "r", "d", "e", "r", "_">> \o <<"C">>
          \o <<"_", "f", "r", "a", "m", "e", "s", "_">> \o str(T)
          \o <<"_", ".", "m", "m", "a", "p">>

get_mmap_name(basename, d1, d2, T, d0) ==
    LET bn == os_path_basename(os_path_normpath(basename))
        trunk == os_path_dirname(basename)
        new_path == os_path_join(trunk, remove_char(bn, USCORE))
    IN  new_path
          \o <<"_", "d", "1", "_">> \o str(d1) \o <<"_", "d", "2", "_">> \o str(d2)
          \o <<"_", "d", "3", "_">> \o str(d0)
          \o <<"_", "o", "r", "d", "e", "r", "_">> \o <<"C">>
          \o <<"_", "f", "r", "a", "m", "e", "s", "_">> \o str(T)
          \o <<"_", ".", "m", "m", "a", "p">>

\* The default of the d0 parameter.
D0Default == 1


(***************************************************************************)
(* The file system and the stack object (haussio_data).                    *)
(***************************************************************************)
Callers == {"c1", "c2"}
MaxCalls == 2
MaxFrames == 2
MaxMaskLen == 1

\* Frame height and width (d1, d2) of the stacks considered.
FrameSizes == {<<2, 3>>}

\* haussio_data.dirname_comp
dirname_comp == <<"d">>

\* haussio_data.filenames: one file per frame, named here by its frame number.
filenames(n) == [k \in 1..n |-> k]

\* The mask argument: None, or a boolean array.
NoMask == [given |-> FALSE, m |-> <<>>]
BoolSeqs(n) == UNION {[1..k -> BOOLEAN] : k \in 0..n}
Masks(n) == {NoMask} \cup {[given |-> TRUE, m |-> b] : b \in BoolSeqs(n)}

\* The contents of the shape metadata file for a stack of n frames of size d1 x d2.
Shapes(n, d1, d2) == {<<n, d1, d2, 1>>, <<n, 1, d1, d2, 1>>}

Stacks ==
    UNION {
        {[nframes |-> n, d1 |-> sz[1], d2 |-> sz[2], raw |-> r, shape |-> sh] :
            r \in {"none", "absent", "present"},
            sh \in {<<>>} \cup {<<x>> : x \in Shapes(n, sz[1], sz[2])}} :
        n \in 1..MaxFrames, sz \in FrameSizes}

\* haussio_data.rawfile is None or not os.path.exists(haussio_data.rawfile)
raw_unavailable(st) == st.raw = "none" \/ st.raw = "absent"

HasPrefix(s, pre) == Len(s) >= Len(pre) /\ SubSeq(s, 1, Len(pre)) = pre
HasSuffix(s, suf) == Len(s) >= Len(suf) /\ SubSeq(s, Len(s) - Len(suf) + 1, Len(s)) = suf

\* glob.glob(dirname + os.path.sep + "Yr*.mmap") over the files on disk; dirname is
\* a plain directory name (no glob metacharacters).
glob_mmap_npy(files, dirname) ==
    {f \in files : HasSuffix(f, <<".", "n", "p", "y">>)}

glob_mmap(files, dirname) ==
    LET pre == dirname \o <<SLASH>> \o <<"Y", "r">>
        suf == <<".", "m", "m", "a", "p">>
    IN  {f \in files :
            /\ HasPrefix(f, pre)
            /\ HasSuffix(f, suf)
            /\ Len(f) >= Len(pre) + Len(suf)
            /\ \A k \in (Len(dirname) + 2)..Len(f) : f[k] # SLASH}

\* Writing (or overwriting) one file of a directory.
WriteFile(dir, name, content) ==
    [n \in DOMAIN dir \cup {name} |-> IF n = name THEN content ELSE dir[n]]

(***************************************************************************)
(* Frame selection of tiffs_to_cnmf.                                       *)
(***************************************************************************)
\* Lines 75-81: the mask extended to the number of frame files.
mask_full_zeros(m, n) ==
    IF n > Len(m) THEN m \o [k \in 1..(n - Len(m)) |-> FALSE] ELSE m

mask_full(m, n) ==
    IF n > Len(m) THEN m \o [k \in 1..(n - Len(m)) |-> TRUE] ELSE m

\* [x for x, masked in zip(xs, ms) if not masked]
RECURSIVE zip_unmasked(_, _)
zip_unmasked(xs, ms) ==
    IF xs = <<>> \/ ms = <<>> THEN <<>>
    ELSE (IF ~Head(ms) THEN <<Head(xs)>> ELSE <<>>) \o zip_unmasked(Tail(xs), Tail(ms))

\* Lines 72-83: the frame files handed to TiffSequence.
select_filenames(fns, mask) ==
    IF ~mask.given THEN fns
    ELSE zip_unmasked(fns, mask_full(mask.m, Len(fns)))

\* np.invert(mask)
np_invert(m) == [k \in 1..Len(m) |-> ~m[k]]

\* a[idx, :, :] with a boolean index. A numpy that checks the index length raises
\* IndexError when it differs from the axis length; an older one only warns, takes a
\* short index as padded with False and raises only for a True entry out of range.
bool_index_fails(a, idx, strict) ==
    IF strict THEN Len(idx) # Len(a)
    ELSE \E k \in 1..Len(idx) : k > Len(a) /\ idx[k]

RECURSIVE bool_index(_, _)
bool_index(a, idx) ==
    IF a = <<>> \/ idx = <<>> THEN <<>>
    ELSE (IF Head(idx) THEN <<Head(a)>> ELSE <<>>) \o bool_index(Tail(a), Tail(idx))

\* An array of frames: the frames it holds, whether their pixels have been written,
\* and its number of axes.
Array(frames, filled, ndim) == [frames |-> frames, filled |-> filled, ndim |-> ndim]

\* ndarray.squeeze(): the axes of length one are dropped.
squeeze_ndim(shape) == Cardinality({k \in 1..Len(shape) : shape[k] # 1})

\* haussio_data.read_raw().squeeze() on an existing raw file: all frames, in order.
read_raw_squeeze(st) ==
    Array(filenames(st.nframes), TRUE, squeeze_ndim(<<st.nframes, st.d1, st.d2>>))


(***************************************************************************)
(* The external factorization engine and the .mat file format.             *)
(***************************************************************************)
MaxResults == 2
Results == 1..MaxResults

\* What a fitted CNMF object holds: an opaque outcome r of the engine.
cnmf_fit(r) ==
    [A   |-> [k |-> "A", r |-> r, fmt |-> "sparse"],
     C   |-> [k |-> "C", r |-> r, fmt |-> "ndarray"],
     YrA |-> [k |-> "YrA", r |-> r, fmt |-> "ndarray"],
     S   |-> [k |-> "S", r |-> r, fmt |-> "ndarray"],
     b   |-> [k |-> "b", r |-> r, fmt |-> "ndarray"]]

tocsc(a) == [a EXCEPT !.fmt = "csc"]

\* scipy.io.savemat / loadmat of one variable: sparse matrices are stored as sparse
\* and come back as csc_matrix, arrays are stored as matrices and come back as arrays.
mat_store(v) == [v EXCEPT !.fmt = IF v.fmt \in {"sparse", "csc"} THEN "mat_sparse" ELSE "mat_full"]
mat_load(v) == [v EXCEPT !.fmt = IF v.fmt = "mat_sparse" THEN "csc" ELSE "ndarray"]

\* Line 188: the dictionary handed to savemat, as stored.
savemat_dict(cnm2) ==
    [A |-> mat_store(tocsc(cnm2.A)), C |-> mat_store(cnm2.C),
     YrA |-> mat_store(cnm2.YrA), S |-> mat_store(cnm2.S), bl |-> mat_store(cnm2.b)]

\* Lines 178-181: the arrays of the cache-miss branch.
miss_arrays(cnm2) ==
    [A2 |-> tocsc(cnm2.A), C2 |-> cnm2.C, YrA |-> cnm2.YrA, S2 |-> cnm2.S]

\* Lines 191-195: the arrays of the cache-hit branch.
hit_arrays_swapped(resdict) ==
    [A2 |-> mat_load(resdict.A), C2 |-> mat_load(resdict.S),
     YrA |-> mat_load(resdict.YrA), S2 |-> mat_load(resdict.C)]

hit_arrays(resdict) ==
    [A2 |-> mat_load(resdict.A), C2 |-> mat_load(resdict.C),
     YrA |-> mat_load(resdict.YrA), S2 |-> mat_load(resdict.S)]

(***************************************************************************)
(* The current working directory and its log files.                        *)
(***************************************************************************)
File(name) == [name |-> name, dir |-> FALSE]
Directory(name) == [name |-> name, dir |-> TRUE]

\* A log file the engine may leave behind.
EngineLogFile == File(<<"c", "L", "O", "G">>)

\* What the working directory holds before the first call: a file and a hidden file
\* with LOG in their names and a file without, and the same with a directory LOGS.
CwdFiles ==
    {File(<<"L", "O", "G", "1">>), File(<<DOT, "L", "O", "G">>), File(<<"l", "o", "g">>)}

CwdInits == {CwdFiles, CwdFiles \cup {Directory(<<"L", "O", "G", "S">>)}}

\* fnmatch(name, "*" + word + "*")
fnmatch_within(name, word) ==
    \E k \in 1..(Len(name) - Len(word) + 1) : SubSeq(name, k, k + Len(word) - 1) = word

\* glob.glob("*LOG*") naming only what the pipeline wrote.
glob_log_own(entries) == entries \cap {EngineLogFile}

\* Line 208: glob.glob("*LOG*") in the working directory; glob leaves out the names
\* that begin with a dot.
glob_log(entries) ==
    {e \in entries : e.name[1] # DOT /\ fnmatch_within(e.name, <<"L", "O", "G">>)}

(***************************************************************************)
(* The callers.                                                            *)
(***************************************************************************)
IdleProc ==
    [pc |-> "idle", op |-> "none", mask |-> NoMask, force |-> FALSE, p |-> 0, p_arg |-> 0,
     after |-> FALSE, tiff_data |-> <<>>, fname_tot |-> <<>>, fn_mmap |-> <<>>,
     path |-> "none", images |-> <<>>, cnm2 |-> <<>>, arrays |-> <<>>,
     zproj |-> <<>>, err |-> "none", log |-> <<>>, ret |-> <<>>]

\* The caller-supplied autoregressive orders tried.
POrders == {0, 2}

Logged(c, e) == Append(proc[c].log, e)
Did(c, e) == \E k \in 1..Len(proc[c].log) : proc[c].log[k] = e

Raise(c, err, log) ==
    proc' = [proc EXCEPT ![c].pc = "raised", ![c].err = err, ![c].log = log]

SysInit ==
    /\ mmapfiles = <<>>
    /\ resfile = <<>>
    /\ projfile = <<>>
    /\ proc = [c \in Callers |-> IdleProc]
    /\ ncalls = 0
    /\ tc_completed = FALSE
    /\ prev = <<>>


(***************************************************************************)
(* tiffs_to_cnmf, lines 65-109.                                            *)
(***************************************************************************)
YrBase == dirname_comp \o <<SLASH>> \o <<"Y", "r">>

\* Where a caller is after tiffs_to_cnmf returns.
AfterBuilder(c) == IF proc[c].op = "tiffs" THEN "done" ELSE "pd_exists"

tiffs_to_cnmf_call(c, mask, force) ==
    /\ proc[c].pc = "idle"
    /\ ncalls < MaxCalls
    /\ ncalls' = ncalls + 1
    /\ proc' = [proc EXCEPT ![c] =
                   [IdleProc EXCEPT !.pc = "tc_glob", !.op = "tiffs", !.mask = mask,
                                    !.force = force, !.after = tc_completed]]
    /\ UNCHANGED <<stack, mmapfiles, resfile, projfile, tc_completed, prev, cwd, inp, out>>

\* Lines 66-68.
tiffs_to_cnmf_glob(c) ==
    /\ proc[c].pc = "tc_glob"
    /\ LET mmap_files == glob_mmap(DOMAIN mmapfiles, dirname_comp)
           log == Logged(c, <<"glob">>)
       IN  IF Cardinality(mmap_files) = 0 \/ proc[c].force
           THEN /\ proc' = [proc EXCEPT ![c].pc = "tc_read", ![c].log = log]
                /\ UNCHANGED tc_completed
           ELSE /\ proc' = [proc EXCEPT ![c].pc = AfterBuilder(c), ![c].log = log]
                /\ tc_completed' = TRUE
    /\ UNCHANGED <<stack, mmapfiles, resfile, projfile, ncalls, prev, cwd, inp, out>>

\* Lines 70-93: the frames, from the per-frame files (TiffSequence, which refuses an
\* empty file list) or from the raw file: the external call made, the error raised if
\* any, and the array read.
load_frames(st, mask, strict) ==
    IF raw_unavailable(st)
    THEN LET fns == select_filenames(filenames(st.nframes), mask)
         IN  IF fns = <<>>
             THEN [via |-> "TiffSequence", err |-> "ValueError", data |-> <<>>]
             ELSE [via |-> "TiffSequence", err |-> "none", data |-> <<Array(fns, TRUE, 3)>>]
    ELSE LET raw == read_raw_squeeze(st)
         IN  IF ~mask.given
             THEN [via |-> "read_raw", err |-> "none", data |-> <<raw>>]
             ELSE IF raw.ndim # 3 \/ bool_index_fails(raw.frames, np_invert(mask.m), strict)
             THEN [via |-> "read_raw", err |-> "IndexError", data |-> <<>>]
             ELSE [via |-> "read_raw", err |-> "none",
                   data |-> <<Array(bool_index(raw.frames, np_invert(mask.m)), TRUE, 3)>>]

tiffs_to_cnmf_read(c) ==
    /\ proc[c].pc = "tc_read"
    /\ \E strict \in BOOLEAN :
         LET got == load_frames(stack, proc[c].mask, strict)
             log == Logged(c, <<got.via>>)
         IN  IF got.err # "none"
             THEN Raise(c, got.err, log)
             ELSE proc' = [proc EXCEPT ![c].pc = "tc_open", ![c].log = log,
                                       ![c].tiff_data = got.data]
    /\ UNCHANGED <<stack, mmapfiles, resfile, projfile, ncalls, tc_completed, prev, cwd, inp, out>>

\* Lines 95-102 with the file appearing only once it is complete (as a builder that
\* wrote a temporary file and renamed it would do).
tiffs_to_cnmf_open_atomic(c) ==
    /\ proc[c].pc = "tc_open"
    /\ LET tiff_data == proc[c].tiff_data[1]
           T == Len(tiff_data.frames)
           fname_tot == get_mmap_name(YrBase, stack.d1, stack.d2, T, D0Default)
       IN  IF tiff_data.ndim # 3 \/ stack.d1 * stack.d2 * T = 0
           THEN Raise(c, "ValueError", proc[c].log)
           ELSE proc' = [proc EXCEPT ![c].pc = "tc_write", ![c].fname_tot = fname_tot,
                                     ![c].log = Logged(c, <<"memmap_w+">>)]
    /\ UNCHANGED <<stack, mmapfiles, resfile, projfile, ncalls, tc_completed, prev, cwd, inp, out>>

\* Lines 95-102: the transposition, the name, and np.memmap(mode='w+'), which creates
\* or truncates the file before it maps it.
tiffs_to_cnmf_open(c) ==
    /\ proc[c].pc = "tc_open"
    /\ LET tiff_data == proc[c].tiff_data[1]
           d1 == stack.d1
           d2 == stack.d2
           T == Len(tiff_data.frames)
           fname_tot == get_mmap_name(YrBase, d1, d2, T, D0Default)
       IN  IF tiff_data.ndim # 3
           THEN /\ Raise(c, "ValueError", proc[c].log)
                /\ UNCHANGED mmapfiles
           ELSE /\ mmapfiles' = WriteFile(mmapfiles, fname_tot, Array(<<>>, FALSE, 2))
                /\ IF d1 * d2 * T = 0
                   THEN Raise(c, "ValueError", Logged(c, <<"memmap_w+">>))
                   ELSE proc' = [proc EXCEPT ![c].pc = "tc_write",
                                             ![c].fname_tot = fname_tot,
                                             ![c].log = Logged(c, <<"memmap_w+">>)]
    /\ UNCHANGED <<stack, resfile, projfile, ncalls, tc_completed, prev, cwd, inp, out>>

\* Lines 103-109: the matrix is written and flushed, and the call returns.
tiffs_to_cnmf_write(c) ==
    /\ proc[c].pc = "tc_write"
    /\ mmapfiles' = WriteFile(mmapfiles, proc[c].fname_tot,
                              Array(proc[c].tiff_data[1].frames, TRUE, 2))
    /\ proc' = [proc EXCEPT ![c].pc = AfterBuilder(c), ![c].tiff_data = <<>>,
                            ![c].log = Logged(c, <<"memmap_write">>)]
    /\ tc_completed' = TRUE
    /\ UNCHANGED <<stack, resfile, projfile, ncalls, prev, cwd, inp, out>>


(***************************************************************************)
(* process_data, lines 113-215.                                            *)
(***************************************************************************)
\* Lines 121-124: d1, d2 from the shape file.
shape_dims(shape) ==
    IF Len(shape) = 5 THEN <<shape[3], shape[4]>> ELSE <<shape[2], shape[3]>>

\* utils.zproject(images): a projection of the frames it is given.
zproject(images) == [of |-> images.frames, filled |-> images.filled]

\* contour(A2, images.shape[1], images.shape[2]) wrapped into ROIs: one polygon list
\* per spatial component matrix and frame size.
rois_of(A2, d1, d2) == [A |-> A2, d1 |-> d1, d2 |-> d2]

\* Lines 114-115 after the shape file has been loaded (a misplaced mask check).
process_data_call_late(c, mask, p) ==
    /\ proc[c].pc = "idle"
    /\ ncalls < MaxCalls
    /\ ncalls' = ncalls + 1
    /\ IF mask.given
       THEN proc' = [proc EXCEPT ![c] =
                        [IdleProc EXCEPT !.pc = "raised", !.op = "process", !.mask = mask,
                                         !.p = p, !.p_arg = p, !.err = "RuntimeError",
                                         !.log = <<<<"np.load">>>>]]
       ELSE proc' = [proc EXCEPT ![c] =
                        [IdleProc EXCEPT !.pc = "pd_shape", !.op = "process", !.p = p,
                                         !.p_arg = p]]
    /\ UNCHANGED <<stack, mmapfiles, resfile, projfile, tc_completed, prev, cwd, inp, out>>

\* Lines 113-115: the call and its mask check.
process_data_call(c, mask, p) ==
    /\ proc[c].pc = "idle"
    /\ ncalls < MaxCalls
    /\ ncalls' = ncalls + 1
    /\ IF mask.given
       THEN proc' = [proc EXCEPT ![c] =
                        [IdleProc EXCEPT !.pc = "raised", !.op = "process", !.mask = mask,
                                         !.p = p, !.p_arg = p, !.err = "RuntimeError"]]
       ELSE proc' = [proc EXCEPT ![c] =
                        [IdleProc EXCEPT !.pc = "pd_shape", !.op = "process", !.p = p,
                                         !.p_arg = p]]
    /\ UNCHANGED <<stack, mmapfiles, resfile, projfile, tc_completed, prev, cwd, inp, out>>

\* Lines 117-127: the shape file is loaded, fn_mmap derived, tiffs_to_cnmf called.
process_data_shape(c) ==
    /\ proc[c].pc = "pd_shape"
    /\ LET log == Logged(c, <<"np.load">>)
       IN  IF stack.shape = <<>>
           THEN Raise(c, "IOError", log)
           ELSE LET shape == stack.shape[1]
                    dd == shape_dims(shape)
                    fn_mmap == get_mmap_name(YrBase, dd[1], dd[2], shape[1], D0Default)
                IN  proc' = [proc EXCEPT ![c].pc = "tc_glob", ![c].fn_mmap = fn_mmap,
                                          ![c].after = tc_completed, ![c].log = log]
    /\ UNCHANGED <<stack, mmapfiles, resfile, projfile, ncalls, tc_completed, prev, cwd, inp, out>>

\* Line 128: the existence check of the result file.
process_data_exists(c) ==
    /\ proc[c].pc = "pd_exists"
    /\ IF resfile = <<>>
       THEN proc' = [proc EXCEPT ![c].pc = "pd_setup", ![c].path = "miss"]
       ELSE proc' = [proc EXCEPT ![c].pc = "pd_loadmat", ![c].path = "hit"]
    /\ UNCHANGED <<stack, mmapfiles, resfile, projfile, ncalls, tc_completed, prev, cwd, inp, out>>

\* Lines 130-131: cm.cluster.setup_cluster.
process_data_setup(c) ==
    /\ proc[c].pc = "pd_setup"
    /\ proc' = [proc EXCEPT ![c].pc = "pd_load_memmap",
                            ![c].log = Logged(c, <<"setup_cluster">>)]
    /\ UNCHANGED <<stack, mmapfiles, resfile, projfile, ncalls, tc_completed, prev, cwd, inp, out>>

\* Lines 133-136: cm.load_memmap(fn_mmap) and the reshape to images.
process_data_load_memmap(c) ==
    /\ proc[c].pc = "pd_load_memmap"
    /\ LET log == Logged(c, <<"load_memmap">>)
       IN  IF proc[c].fn_mmap \notin DOMAIN mmapfiles
           THEN Raise(c, "IOError", log)
           ELSE LET Yr == mmapfiles[proc[c].fn_mmap]
                IN  proc' = [proc EXCEPT ![c].pc = "pd_fit", ![c].log = log,
                                          ![c].images = <<Array(Yr.frames, Yr.filled, 3)>>]
    /\ UNCHANGED <<stack, mmapfiles, resfile, projfile, ncalls, tc_completed, prev, cwd, inp, out>>

\* Line 143 left out: the caller's p stays.
p_kept(p) == p

\* Line 143: p = 1, whatever the caller passed.
p_reassigned(p) == 1

\* Lines 159-176: the external calls of the miss branch with the autoregressive order
\* each is given, p being the variable as it stands after line 143.
engine_calls(p) == <<<<"fit", str(0)>>, <<"evaluate">>, <<"fit", str(p)>>>>

\* Lines 138-181: p is reassigned to 1; the first pass runs with order 0, the quality
\* evaluation follows, the second pass runs with order p. Each of the three external
\* calls may fail; the outcome of the engine is opaque, and it may leave a log file in
\* the working directory.
process_data_fit(c) ==
    /\ proc[c].pc = "pd_fit"
    /\ LET p == p_reassigned(proc[c].p)
           calls == engine_calls(p)
           log1 == Logged(c, calls[1])
           log2 == Append(log1, calls[2])
           log3 == Append(log2, calls[3])
       IN  \/ \E r \in Results :
                proc' = [proc EXCEPT ![c].pc = "pd_save", ![c].p = p, ![c].log = log3,
                                     ![c].cnm2 = <<cnmf_fit(r)>>,
                                     ![c].arrays = <<miss_arrays(cnmf_fit(r))>>]
           \/ \E log \in {log1, log2, log3} :
                proc' = [proc EXCEPT ![c].pc = "raised", ![c].err = "EngineError",
                                     ![c].p = p, ![c].log = log]
    /\ \E wrote \in BOOLEAN : cwd' = IF wrote THEN cwd \cup {EngineLogFile} ELSE cwd
    /\ UNCHANGED <<stack, mmapfiles, resfile, projfile, ncalls, tc_completed, prev, inp, out>>

\* Line 188 without the write (a result that is computed and never stored).
process_data_save_skipped(c) ==
    /\ proc[c].pc = "pd_save"
    /\ proc' = [proc EXCEPT ![c].pc = "pd_proj", ![c].cnm2 = <<>>]
    /\ UNCHANGED <<stack, mmapfiles, resfile, projfile, ncalls, tc_completed, prev, cwd, inp, out>>

\* Line 188 refusing to replace an existing result file.
process_data_save_once(c) ==
    /\ proc[c].pc = "pd_save"
    /\ resfile' = IF resfile = <<>> THEN <<savemat_dict(proc[c].cnm2[1])>> ELSE resfile
    /\ proc' = [proc EXCEPT ![c].pc = "pd_proj", ![c].cnm2 = <<>>,
                            ![c].log = Logged(c, <<"savemat">>)]
    /\ UNCHANGED <<stack, mmapfiles, projfile, ncalls, tc_completed, prev, cwd, inp, out>>

\* Line 188: savemat writes the result file, replacing any file of that name.
process_data_save(c) ==
    /\ proc[c].pc = "pd_save"
    /\ resfile' = <<savemat_dict(proc[c].cnm2[1])>>
    /\ proc' = [proc EXCEPT ![c].pc = "pd_proj", ![c].cnm2 = <<>>,
                            ![c].log = Logged(c, <<"savemat">>)]
    /\ UNCHANGED <<stack, mmapfiles, projfile, ncalls, tc_completed, prev, cwd, inp, out>>

\* Lines 191-196: loadmat and the arrays taken from it.
process_data_loadmat(c) ==
    /\ proc[c].pc = "pd_loadmat"
    /\ LET log == Logged(c, <<"loadmat">>)
       IN  IF resfile = <<>>
           THEN Raise(c, "IOError", log)
           ELSE proc' = [proc EXCEPT ![c].pc = "pd_read_raw", ![c].log = log,
                                     ![c].arrays = <<hit_arrays(resfile[1])>>]
    /\ UNCHANGED <<stack, mmapfiles, resfile, projfile, ncalls, tc_completed, prev, cwd, inp, out>>

\* Line 197: images = haussio_data.read_raw().squeeze(), whatever rawfile is. What the
\* reader does without a raw file on disk is its own affair: it fails, or it finds the
\* frames elsewhere.
process_data_read_raw(c) ==
    /\ proc[c].pc = "pd_read_raw"
    /\ LET log == Logged(c, <<"read_raw">>)
       IN  \/ /\ raw_unavailable(stack)
              /\ Raise(c, "IOError", log)
           \/ proc' = [proc EXCEPT ![c].pc = "pd_proj", ![c].log = log,
                                   ![c].images = <<read_raw_squeeze(stack)>>]
    /\ UNCHANGED <<stack, mmapfiles, resfile, projfile, ncalls, tc_completed, prev, cwd, inp, out>>

\* Lines 199-204: the projection, computed and saved or loaded.
process_data_proj(c) ==
    /\ proc[c].pc = "pd_proj"
    /\ IF projfile = <<>>
       THEN /\ projfile' = <<zproject(proc[c].images[1])>>
            /\ proc' = [proc EXCEPT ![c].pc = "pd_finish",
                                    ![c].zproj = <<zproject(proc[c].images[1])>>,
                                    ![c].log = Logged(c, <<"np.save proj">>)]
       ELSE /\ UNCHANGED projfile
            /\ proc' = [proc EXCEPT ![c].pc = "pd_finish", ![c].zproj = projfile,
                                    ![c].log = Logged(c, <<"np.load proj">>)]
    /\ UNCHANGED <<stack, mmapfiles, resfile, ncalls, tc_completed, prev, cwd, inp, out>>

\* Lines 206-215: cm.stop_server(), the log files are removed (the glob and the
\* unlinks taken as one step), the contours traced, the results returned. os.unlink
\* raises on a directory; the entries unlinked before it, in the order glob listed
\* them, are gone.
process_data_finish(c) ==
    /\ proc[c].pc = "pd_finish"
    /\ LET images == proc[c].images[1]
           arrays == proc[c].arrays[1]
           logfiles == glob_log(cwd)
           log == Append(Logged(c, <<"stop_server">>), <<"unlink logs">>)
       IN  IF \E e \in logfiles : e.dir
           THEN /\ \E gone \in SUBSET {e \in logfiles : ~e.dir} : cwd' = cwd \ gone
                /\ Raise(c, "OSError", log)
           ELSE /\ cwd' = cwd \ logfiles
                /\ IF images.ndim < 3
                   THEN Raise(c, "IndexError", log)
                   ELSE proc' = [proc EXCEPT
                           ![c].pc = "done", ![c].log = log,
                           ![c].ret = <<[rois |-> rois_of(arrays.A2, stack.d1, stack.d2),
                                         C2 |-> arrays.C2, zproj |-> proc[c].zproj[1],
                                         S2 |-> arrays.S2, images |-> images,
                                         YrA |-> arrays.YrA]>>]
    /\ UNCHANGED <<stack, mmapfiles, resfile, projfile, ncalls, tc_completed, prev, inp, out>>

\* The caller takes the result (or the exception) and is free to call again.
Return(c) ==
    /\ proc[c].pc \in {"done", "raised"}
    /\ prev' = IF proc[c].op = "process" /\ proc[c].pc = "done" THEN proc[c].ret ELSE prev
    /\ proc' = [proc EXCEPT ![c] = IdleProc]
    /\ UNCHANGED <<stack, mmapfiles, resfile, projfile, ncalls, tc_completed, cwd, inp, out>>

(***************************************************************************)
(* The specifications: concurrent callers, and one caller at a time.       *)
(***************************************************************************)
Init ==
    /\ stack \in Stacks
    /\ cwd \in CwdInits
    /\ SysInit
    /\ inp = <<>>
    /\ out = <<>>

Calls(c) ==
    \/ \E mask \in Masks(MaxMaskLen), force \in BOOLEAN : tiffs_to_cnmf_call(c, mask, force)
    \/ \E mask \in Masks(MaxMaskLen), p \in POrders : process_data_call(c, mask, p)

Steps(c) ==
    \/ tiffs_to_cnmf_glob(c)
    \/ tiffs_to_cnmf_read(c)
    \/ tiffs_to_cnmf_open(c)
    \/ tiffs_to_cnmf_write(c)
    \/ process_data_shape(c)
    \/ process_data_exists(c)
    \/ process_data_setup(c)
    \/ process_data_load_memmap(c)
    \/ process_data_fit(c)
    \/ process_data_save(c)
    \/ process_data_loadmat(c)
    \/ process_data_read_raw(c)
    \/ process_data_proj(c)
    \/ process_data_finish(c)
    \/ Return(c)

Next == \E c \in Callers : Calls(c) \/ Steps(c)

Spec == Init /\ [][Next]_vars

\* One caller at a time: a call starts only when no other call is in progress.
Alone(c) == \A o \in Callers \ {c} : proc[o].pc = "idle"

CallsAlone(c) ==
    \/ \E mask \in Masks(MaxMaskLen), force \in BOOLEAN :
          Alone(c) /\ tiffs_to_cnmf_call(c, mask, force)
    \/ \E mask \in Masks(MaxMaskLen), p \in POrders :
          Alone(c) /\ process_data_call(c, mask, p)

NextSeq == \E c \in Callers : CallsAlone(c) \/ Steps(c)

SpecSeq == Init /\ [][NextSeq]_vars


(***************************************************************************)
(* Properties of process_data and tiffs_to_cnmf.                           *)
(***************************************************************************)
\* Whether caller c has made one of the named external calls in its current call.
DidAny(c, names) == \E k \in 1..Len(proc[c].log) : proc[c].log[k][1] \in names

\* Two arrays hold the same values, whatever their container format.
SameArray(x, y) == x.k = y.k /\ x.r = y.r

\* The arrays a call works with are the variables A, C, YrA, S of a stored bundle.
ArraysFrom(arrays, stored) ==
    /\ SameArray(arrays.A2, stored.A)
    /\ SameArray(arrays.C2, stored.C)
    /\ SameArray(arrays.YrA, stored.YrA)
    /\ SameArray(arrays.S2, stored.S)

\* C1: a process_data call with a non-null mask has failed with RuntimeError and has
\* made no external call at all: no file read or written, no builder run, no worker
\* pool, no factorization.
C1_MaskRejectedFirst ==
    \A c \in Callers :
        (proc[c].op = "process" /\ proc[c].mask.given) =>
            /\ proc[c].pc = "raised"
            /\ proc[c].err = "RuntimeError"
            /\ proc[c].log = <<>>
            /\ proc[c].path = "none"

C1_Witness ==
    \E c \in Callers :
        /\ proc[c].op = "process"
        /\ proc[c].mask.given
        /\ proc[c].err = "RuntimeError"
        /\ DOMAIN mmapfiles # {}

\* C2: a call that found the result file at its existence check never invokes the
\* engine or the evaluator; the arrays it takes are those stored in the file when it
\* loads it, it keeps them, and what it returns is these arrays.
C2_HitState ==
    \A c \in Callers :
        proc[c].path = "hit" =>
            /\ ~DidAny(c, {"fit", "evaluate"})
            /\ proc[c].pc = "done" =>
                  /\ proc[c].ret[1].C2 = proc[c].arrays[1].C2
                  /\ proc[c].ret[1].S2 = proc[c].arrays[1].S2
                  /\ proc[c].ret[1].YrA = proc[c].arrays[1].YrA
                  /\ proc[c].ret[1].rois.A = proc[c].arrays[1].A2

C2_HitStep ==
    \A c \in Callers :
        /\ (proc[c].pc = "pd_loadmat" /\ proc'[c].pc = "pd_read_raw") =>
              ArraysFrom(proc'[c].arrays[1], resfile[1])
        /\ (proc[c].path = "hit" /\ proc'[c].path = "hit" /\ proc[c].arrays # <<>>) =>
              proc'[c].arrays = proc[c].arrays

C2_CacheHit == [] C2_HitState /\ [][C2_HitStep]_vars

C2_Witness ==
    \E c \in Callers : proc[c].path = "hit" /\ proc[c].pc = "done"

\* C3 (one caller at a time): on a cache miss the factorization precedes the write, the
\* file written holds exactly A, C, YrA, S, bl and these are the arrays of the call;
\* after a successful return the file exists; and a call that follows a returned call
\* takes the cache-hit branch and works with, and on return gives back, the same
\* A, C, YrA and S.
FitBeforeSave(c) ==
    \E i, j \in 1..Len(proc[c].log) :
        i < j /\ proc[c].log[i][1] = "fit" /\ proc[c].log[j][1] = "savemat"

C3_MissPersists ==
    \A c \in Callers :
        /\ (proc[c].path = "miss" /\ proc[c].pc \in {"pd_proj", "pd_finish", "done"}) =>
              /\ resfile # <<>>
              /\ DOMAIN resfile[1] = {"A", "C", "YrA", "S", "bl"}
              /\ FitBeforeSave(c)
              /\ ArraysFrom(proc[c].arrays[1], resfile[1])
        /\ (proc[c].op = "process" /\ proc[c].pc = "done") => resfile # <<>>
        /\ (proc[c].op = "process" /\ prev # <<>> /\ ~proc[c].mask.given) =>
              /\ proc[c].pc \in {"pd_shape", "tc_glob", "pd_exists"} \/ proc[c].path = "hit"
              /\ proc[c].arrays # <<>> =>
                    /\ proc[c].arrays[1].C2 = prev[1].C2
                    /\ proc[c].arrays[1].S2 = prev[1].S2
                    /\ proc[c].arrays[1].YrA = prev[1].YrA
                    /\ proc[c].arrays[1].A2 = prev[1].rois.A
              /\ proc[c].pc = "done" =>
                    /\ proc[c].ret[1].C2 = prev[1].C2
                    /\ proc[c].ret[1].S2 = prev[1].S2
                    /\ proc[c].ret[1].YrA = prev[1].YrA
                    /\ proc[c].ret[1].rois = prev[1].rois

C3_Witness ==
    \E c \in Callers :
        /\ prev # <<>>
        /\ proc[c].op = "process"
        /\ proc[c].path = "hit"
        /\ proc[c].pc = "done"

\* C4: nothing orders two callers on a missing result file: a caller at the existence
\* check goes on to compute whenever the file is absent, wherever the other caller
\* is, and its savemat replaces whatever result file is there.
C4_Step ==
    \A c \in Callers :
        /\ (proc[c].pc = "pd_exists" /\ proc'[c].pc # "pd_exists" /\ resfile = <<>>) =>
              (proc'[c].path = "miss" /\ proc'[c].pc = "pd_setup")
        /\ (proc[c].pc = "pd_save" /\ proc'[c].pc # "pd_save") =>
              resfile' = <<savemat_dict(proc[c].cnm2[1])>>

C4_NoExclusion == [][C4_Step]_vars

C4_Witness ==
    \E c1, c2 \in Callers :
        /\ c1 # c2
        /\ proc[c1].path = "miss" /\ proc[c2].path = "miss"
        /\ DidAny(c1, {"fit"}) /\ DidAny(c2, {"fit"})
        /\ DidAny(c1, {"savemat"}) /\ DidAny(c2, {"savemat"})
        /\ ArraysFrom(proc[c2].arrays[1], resfile[1])
        /\ ~ArraysFrom(proc[c1].arrays[1], resfile[1])

CallT(st, mask) == Len(select_filenames(filenames(st.nframes), mask))

\* C6: after every tiffs_to_cnmf call returns, a mapped file whose name encodes the
\* (d1, d2, 1, T) of the frames the call was asked to map exists.
C6_CurrentFileExists ==
    \A c \in Callers :
        (proc[c].op = "tiffs" /\ proc[c].pc = "done") =>
            get_mmap_name(YrBase, stack.d1, stack.d2, CallT(stack, proc[c].mask), D0Default)
                \in DOMAIN mmapfiles

\* C8: with a raw file that is declared and absent, no call ever invokes the
\* raw-stack reader (the frames come from the per-frame files).
C8_RawReaderNotInvoked ==
    stack.raw = "absent" => \A c \in Callers : ~DidAny(c, {"read_raw"})


\* C13: nothing orders a builder and a reader of the mapped file: opening the file
\* (mode w+) leaves it on disk under its final name with its contents still to be
\* written, also when it was complete before; a call without force skips the build
\* whenever any mapped file is there, complete or not; and the loader takes the file
\* as it is at that moment.
C13_Step ==
    \A c \in Callers :
        /\ (proc[c].pc = "tc_open" /\ proc'[c].pc = "tc_write") =>
              /\ proc'[c].fname_tot \in DOMAIN mmapfiles'
              /\ ~mmapfiles'[proc'[c].fname_tot].filled
        /\ (proc[c].pc = "tc_glob" /\ proc'[c].pc # "tc_glob" /\ ~proc[c].force
               /\ glob_mmap(DOMAIN mmapfiles, dirname_comp) # {}) =>
              proc'[c].pc = AfterBuilder(c)
        /\ (proc[c].pc = "pd_load_memmap" /\ proc'[c].pc = "pd_fit") =>
              /\ proc'[c].images[1].filled = mmapfiles[proc[c].fn_mmap].filled
              /\ proc'[c].images[1].frames = mmapfiles[proc[c].fn_mmap].frames

C13_UnsafeBuild == [][C13_Step]_vars

\* One caller has skipped the build and loaded the mapped file while the other has
\* opened it and not yet written it: the images it works with are incomplete.
C13_Witness ==
    \E c1, c2 \in Callers :
        /\ c1 # c2
        /\ proc[c1].pc = "tc_write"
        /\ proc[c2].op = "process"
        /\ ~DidAny(c2, {"memmap_w+"})
        /\ proc[c2].pc = "pd_fit"
        /\ proc[c2].fn_mmap = proc[c1].fname_tot
        /\ ~proc[c2].images[1].filled

\* C14: no process_data call has ended, by returning or by raising, with a worker
\* pool it started (setup_cluster) and did not tear down (stop_server).
C14_PoolTornDown ==
    \A c \in Callers :
        (proc[c].pc \in {"done", "raised"} /\ Did(c, <<"setup_cluster">>)) =>
            Did(c, <<"stop_server">>)

\* C18: a call that found the result file has not created or written a mapped file,
\* has started no worker pool and has invoked no pool teardown.
C18_HitSkipsAll ==
    \A c \in Callers :
        proc[c].path = "hit" =>
            ~DidAny(c, {"memmap_w+", "memmap_write", "setup_cluster", "stop_server"})

\* C19: whenever a cache-miss call is about to load the mapped file, the name it
\* derived from the shape file is the name of a file on disk.
C19_MmapNameExists ==
    \A c \in Callers :
        proc[c].pc = "pd_load_memmap" => proc[c].fn_mmap \in DOMAIN mmapfiles

\* The calls of the engine and the evaluator a caller has made in its current call.
IsEngineCall(e) == e[1] \in {"fit", "evaluate"}
EngineLog(c) == SelectSeq(proc[c].log, IsEngineCall)

IsPrefix(s, t) == Len(s) <= Len(t) /\ SubSeq(t, 1, Len(s)) = s

\* C16: whatever p a process_data call was given, the engine calls it makes are those
\* of a call given any other p: the first pass with order 0, the evaluation, the second
\* pass with order 1; and the arrays it works with, stores and returns are an outcome
\* of the engine in which the p given does not occur.
C16_OrderIgnored ==
    \A c \in Callers :
        proc[c].op = "process" =>
            /\ \A p2 \in POrders :
                  IsPrefix(EngineLog(c), engine_calls(p_reassigned(p2)))
            /\ IsPrefix(EngineLog(c), <<<<"fit", <<"0">>>>, <<"evaluate">>, <<"fit", <<"1">>>>>>)
            /\ (proc[c].path = "miss" /\ proc[c].arrays # <<>>) =>
                  \E r \in Results :
                      /\ proc[c].arrays[1] = miss_arrays(cnmf_fit(r))
                      /\ DidAny(c, {"savemat"}) =>
                            \E r2 \in Results : resfile[1] = savemat_dict(cnmf_fit(r2))

C16_Witness ==
    \E c \in Callers :
        /\ proc[c].op = "process"
        /\ proc[c].p_arg = 2
        /\ proc[c].pc = "done"
        /\ EngineLog(c) = <<<<"fit", <<"0">>>>, <<"evaluate">>, <<"fit", <<"1">>>>>>

\* A directory entry that glob lists (its name does not begin with a dot) and whose
\* name holds LOG.
IsLogEntry(e) ==
    /\ e.name[1] # DOT
    /\ \E k \in 1..(Len(e.name) - 2) :
          e.name[k] = "L" /\ e.name[k + 1] = "O" /\ e.name[k + 2] = "G"

\* C15 (one caller at a time): when a process_data call has returned, on a miss or on
\* a hit, the working directory holds no entry that *LOG* matches, whoever wrote it;
\* and no step removes an entry that *LOG* does not match.
C15_NoLogLeft ==
    \A c \in Callers :
        (proc[c].op = "process" /\ proc[c].pc = "done") => \A e \in cwd : ~IsLogEntry(e)

C15_OthersKept == \A e \in cwd : ~IsLogEntry(e) => e \in cwd'

C15_LogCleanup == [] C15_NoLogLeft /\ [][C15_OthersKept]_vars

C15_Witness ==
    \E c \in Callers :
        /\ proc[c].op = "process"
        /\ proc[c].pc = "done"
        /\ proc[c].path = "hit"
        /\ File(<<"L", "O", "G", "1">>) \notin cwd
        /\ File(<<"l", "o", "g">>) \in cwd
        /\ File(<<DOT, "L", "O", "G">>) \in cwd

(***************************************************************************)
(* The pure functions, applied to inputs drawn from bounded sets. The file *)
(* system and the callers stay as constructed.                             *)
(***************************************************************************)
PureSys ==
    /\ stack = CHOOSE st \in Stacks : TRUE
    /\ cwd = {}
    /\ SysInit

(***************************************************************************)
(* Frame selection (lines 70-93) on every mask up to MaxPureMaskLen.       *)
(***************************************************************************)
MaxPureMaskLen == 3

MaskInputs ==
    {[st |-> st, mask |-> mask, strict |-> strict] :
        st \in Stacks, mask \in Masks(MaxPureMaskLen), strict \in BOOLEAN}

InitMask ==
    /\ PureSys
    /\ inp \in MaskInputs
    /\ out = <<>>

ApplyLoadFrames ==
    /\ out = <<>>
    /\ out' = <<load_frames(inp.st, inp.mask, inp.strict)>>
    /\ UNCHANGED <<sysvars, inp>>

SpecMask == InitMask /\ [][ApplyLoadFrames]_vars

\* A sequence of frame numbers is exactly the set K in increasing order.
IsOrdered(frames, K) ==
    /\ Len(frames) = Cardinality(K)
    /\ {frames[k] : k \in 1..Len(frames)} = K
    /\ \A i, j \in 1..Len(frames) : i < j => frames[i] < frames[j]

\* The frames whose mask entry is not true, frames beyond the mask counted as excluded.
KeptShortExcluded(n, mask) ==
    IF ~mask.given THEN 1..n
    ELSE {k \in 1..n : k <= Len(mask.m) /\ ~mask.m[k]}

\* The frames whose mask entry is not true, frames beyond the mask counted as included.
KeptShortIncluded(n, mask) ==
    IF ~mask.given THEN 1..n
    ELSE {k \in 1..n : ~(k <= Len(mask.m) /\ mask.m[k])}

\* C7 (as amended): whenever frames are obtained, they are exactly the frames that lie
\* within the mask's length and whose mask entry is not true, in original order: a
\* frame beyond the mask's length is dropped. From the per-frame files the frames are
\* obtained whenever at least one such frame exists.
C7_MaskShortExcluded ==
    out # <<>> =>
        LET kept == KeptShortExcluded(inp.st.nframes, inp.mask)
        IN  /\ out[1].err = "none" => IsOrdered(out[1].data[1].frames, kept)
            /\ (raw_unavailable(inp.st) /\ kept # {}) => out[1].err = "none"

C7_Witness ==
    /\ out # <<>>
    /\ inp.mask.given
    /\ Len(inp.mask.m) < inp.st.nframes
    /\ Len(inp.mask.m) > 0
    /\ out[1].err = "none"
    /\ Len(out[1].data[1].frames) > 0

\* C7 (as claimed): the frames used are exactly the frames whose mask entry is not
\* true, a frame beyond the mask's length being included.
C7_MaskShortIncluded ==
    (out # <<>> /\ out[1].err = "none") =>
        IsOrdered(out[1].data[1].frames, KeptShortIncluded(inp.st.nframes, inp.mask))

(***************************************************************************)
(* get_mmap_name on every base path over a small alphabet.                 *)
(***************************************************************************)
PathChars == {"a", USCORE, SLASH, DOT}

BasePaths == UNION {[1..n -> PathChars] : n \in 1..MaxBaseLen}

\* Dimensions with one and with two decimal digits.
NameDims == (0..MaxSmallDim) \cup {10 + k : k \in 0..MaxSmallDim}

NameInputs ==
    {[base |-> b, d1 |-> d1, d2 |-> d2, T |-> T] :
        b \in BasePaths, d1 \in NameDims, d2 \in NameDims, T \in NameDims}

InitName ==
    /\ PureSys
    /\ inp \in NameInputs
    /\ out = <<>>

ApplyGetMmapName ==
    /\ out = <<>>
    /\ out' = <<get_mmap_name(inp.base, inp.d1, inp.d2, inp.T, D0Default)>>
    /\ UNCHANGED <<sysvars, inp>>

SpecName == InitName /\ [][ApplyGetMmapName]_vars

\* _d1_<d1>_d2_<d2>_d3_1_order_C_frames_<T>_.mmap
NameSuffix(d1, d2, T) ==
    <<"_", "d", "1", "_">> \o str(d1) \o <<"_", "d", "2", "_">> \o str(d2)
        \o <<"_", "d", "3", "_", "1", "_", "o", "r", "d", "e", "r", "_", "C", "_",
             "f", "r", "a", "m", "e", "s", "_">> \o str(T) \o <<"_", ".", "m", "m", "a", "p">>

\* The final component of a path, and what precedes it.
LastComp(b) == SubSeq(b, rfind(b, SLASH) + 1, Len(b))
HeadPart(b) == SubSeq(b, 1, rfind(b, SLASH))

\* A base whose final component is a plain name without underscores, preceded by a
\* single separator (or by leading separators only).
PlainBase(b) ==
    /\ LastComp(b) \notin {<<>>, <<DOT>>, <<DOT, DOT>>}
    /\ \A k \in 1..Len(LastComp(b)) : LastComp(b)[k] # USCORE
    /\ \/ AllSlashes(HeadPart(b))
       \/ ~HasSuffix(HeadPart(b), <<SLASH, SLASH>>)

\* C9 (as amended): for a plain base the name is the base, unchanged, followed by
\* _d1_<d1>_d2_<d2>_d3_1_order_C_frames_<T>_.mmap; for every base the name ends with
\* that suffix, what precedes the suffix has no underscore in its final component, and
\* other (d1, d2, T) for the same base give another name.
C9_NamePlainBase ==
    out # <<>> =>
        /\ PlainBase(inp.base) => out[1] = inp.base \o NameSuffix(inp.d1, inp.d2, inp.T)
        /\ HasSuffix(out[1], NameSuffix(inp.d1, inp.d2, inp.T))
        /\ LET stem == LastComp(SubSeq(out[1], 1,
                                       Len(out[1]) - Len(NameSuffix(inp.d1, inp.d2, inp.T))))
           IN  \A k \in 1..Len(stem) : stem[k] # USCORE
        /\ \A d1 \in NameDims, d2 \in NameDims, T \in NameDims :
              <<d1, d2, T>> # <<inp.d1, inp.d2, inp.T>> =>
                  get_mmap_name(inp.base, d1, d2, T, D0Default) # out[1]

C9_Witness ==
    /\ out # <<>>
    /\ inp.base = <<"a", SLASH, "a">>
    /\ inp.d1 = 10
    /\ out[1] = inp.base \o NameSuffix(inp.d1, inp.d2, inp.T)

\* C9 (as claimed): for every base the name is the base, unchanged, followed by
\* _d1_<d1>_d2_<d2>_d3_1_order_C_frames_<T>_.mmap.
C9_NameEveryBase ==
    out # <<>> => out[1] = inp.base \o NameSuffix(inp.d1, inp.d2, inp.T)


(***************************************************************************)
(* The layout of the mapped matrix: lines 95-104 (the builder) and lines   *)
(* 133-136 (the reader). Arrays are a shape and their elements by 0-based  *)
(* index; a file is its float32 elements in the order they lie on disk.    *)
(***************************************************************************)
MaxLayoutT == 2
MaxLayoutD1 == 2
MaxLayoutD2 == 3

\* The largest pixel value of a 16-bit image.
PixelMax == 65535

Idx(shape) ==
    IF Len(shape) = 1 THEN {<<a>> : a \in 0..(shape[1] - 1)}
    ELSE IF Len(shape) = 2
    THEN {<<a, b>> : a \in 0..(shape[1] - 1), b \in 0..(shape[2] - 1)}
    ELSE {<<a, b, c>> : a \in 0..(shape[1] - 1), b \in 0..(shape[2] - 1),
                        c \in 0..(shape[3] - 1)}

\* The offset of an element in row-major (C) and in column-major (F) order.
LinC(shape, i) ==
    IF Len(shape) = 1 THEN i[1]
    ELSE IF Len(shape) = 2 THEN i[1] * shape[2] + i[2]
    ELSE (i[1] * shape[2] + i[2]) * shape[3] + i[3]

LinF(shape, i) ==
    IF Len(shape) = 1 THEN i[1]
    ELSE IF Len(shape) = 2 THEN i[1] + shape[1] * i[2]
    ELSE i[1] + shape[1] * (i[2] + shape[2] * i[3])

Lin(order, shape, i) == IF order = "C" THEN LinC(shape, i) ELSE LinF(shape, i)

\* astype(np.float32): exact up to 2^24, rounded to even above it.
astype_float32(v) ==
    IF v <= 16777216 THEN v
    ELSE IF v % 2 = 0 THEN v
    ELSE IF (v + 1) % 4 = 0 THEN v + 1 ELSE v - 1

np_astype_float32(a) ==
    [shape |-> a.shape, data |-> [i \in Idx(a.shape) |-> astype_float32(a.data[i])]]

\* np.transpose(a, axes): axis k of the result is axis axes[k] of a (0-based).
np_transpose(a, axes) ==
    LET shape == [k \in 1..Len(axes) |-> a.shape[axes[k] + 1]]
        src(i) == [m \in 1..Len(axes) |-> i[CHOOSE k \in 1..Len(axes) : axes[k] + 1 = m]]
    IN  [shape |-> shape, data |-> [i \in Idx(shape) |-> a.data[src(i)]]]

\* np.reshape(a, shape, order): the elements read in that order and placed in it.
np_reshape(a, shape, order) ==
    [shape |-> shape,
     data |-> [i \in Idx(shape) |->
                  a.data[CHOOSE j \in Idx(a.shape) :
                            Lin(order, a.shape, j) = Lin(order, shape, i)]]]

\* np.memmap(..., shape, order) assigned from an array of that shape and flushed: the
\* elements as they lie in the file.
memmap_file(a, order) ==
    [n \in 0..(Cardinality(Idx(a.shape)) - 1) |->
        a.data[CHOOSE j \in Idx(a.shape) : Lin(order, a.shape, j) = n]]

\* np.memmap(file, shape, order) read back.
memmap_array(file, shape, order) ==
    [shape |-> shape, data |-> [i \in Idx(shape) |-> file[Lin(order, shape, i)]]]

\* Lines 95-103 with a row-major reshape (a slip of the order argument).
builder_matrix_orderC(tiff_data) ==
    LET t == np_transpose(np_astype_float32(tiff_data), <<1, 2, 0>>)
        d1 == t.shape[1]
        d2 == t.shape[2]
        T == t.shape[3]
    IN  np_reshape(t, <<d1 * d2, T>>, "C")

\* Lines 95-103: the (d1*d2, T) matrix assigned to big_mov.
builder_matrix(tiff_data) ==
    LET t == np_transpose(np_astype_float32(tiff_data), <<1, 2, 0>>)
        d1 == t.shape[1]
        d2 == t.shape[2]
        T == t.shape[3]
    IN  np_reshape(t, <<d1 * d2, T>>, "F")

\* Lines 100-104: the mapped file, opened with order='C'.
builder_file(tiff_data) == memmap_file(builder_matrix(tiff_data), "C")

\* cm.load_memmap on a file named for (d1, d2, 1, T) and order C: Yr, dims, T.
load_memmap(file, d1, d2, d3, T, order) ==
    [Yr |-> memmap_array(file, <<d1 * d2 * d3, T>>, order), dims |-> <<d1, d2>>, T |-> T]

\* Line 136: images = np.reshape(Yr.T, [T] + list(dims), order='F')
reader_images(file, d1, d2, T) ==
    LET m == load_memmap(file, d1, d2, 1, T, "C")
    IN  np_reshape(np_transpose(m.Yr, <<1, 0>>), <<m.T>> \o m.dims, "F")

\* Synthetic stacks of shape (T, d1, d2): one with all pixels different, and those
\* with a single pixel set, to 1 or to the largest 16-bit value.
LayoutShapes ==
    {<<T, d1, d2>> : T \in 1..MaxLayoutT, d1 \in 1..MaxLayoutD1, d2 \in 1..MaxLayoutD2}

RampStack(shape) == [shape |-> shape, data |-> [i \in Idx(shape) |-> 1 + LinC(shape, i)]]

HotStack(shape, hot, v) ==
    [shape |-> shape, data |-> [i \in Idx(shape) |-> IF i = hot THEN v ELSE 0]]

LayoutStacks ==
    {RampStack(sh) : sh \in LayoutShapes}
        \cup UNION {{HotStack(sh, hot, v) : hot \in Idx(sh), v \in {1, PixelMax}} :
                        sh \in LayoutShapes}

InitLayout ==
    /\ PureSys
    /\ inp \in LayoutStacks
    /\ out = [phase |-> "start"]

LayoutBuild ==
    /\ out.phase = "start"
    /\ out' = [phase |-> "built", matrix |-> builder_matrix(inp), file |-> builder_file(inp)]
    /\ UNCHANGED <<sysvars, inp>>

LayoutRead ==
    /\ out.phase = "built"
    /\ out' = [phase |-> "read", matrix |-> out.matrix, file |-> out.file,
               images |-> reader_images(out.file, inp.shape[2], inp.shape[3], inp.shape[1])]
    /\ UNCHANGED <<sysvars, inp>>

SpecLayout == InitLayout /\ [][LayoutBuild \/ LayoutRead]_vars

\* C10: pixel (i, j) of frame t is stored at row i + d1*j, column t of the
\* (d1*d2, T) matrix, which lies row by row in the file; and the images read back
\* have the shape (T, d1, d2) and the original pixel at every (t, i, j).
C10_LayoutRoundTrip ==
    LET T == inp.shape[1]
        d1 == inp.shape[2]
        d2 == inp.shape[3]
    IN  /\ out.phase \in {"built", "read"} =>
              /\ out.matrix.shape = <<d1 * d2, T>>
              /\ \A t \in 0..(T - 1), i \in 0..(d1 - 1), j \in 0..(d2 - 1) :
                    /\ out.matrix.data[<<i + d1 * j, t>>] = inp.data[<<t, i, j>>]
                    /\ out.file[(i + d1 * j) * T + t] = inp.data[<<t, i, j>>]
        /\ out.phase = "read" =>
              /\ out.images.shape = <<T, d1, d2>>
              /\ \A t \in 0..(T - 1), i \in 0..(d1 - 1), j \in 0..(d2 - 1) :
                    out.images.data[<<t, i, j>>] = inp.data[<<t, i, j>>]

C10_Witness ==
    /\ out.phase = "read"
    /\ inp.shape = <<2, 2, 3>>
    /\ inp.data[<<1, 0, 2>>] = PixelMax
    /\ out.images.data[<<1, 0, 2>>] = PixelMax
    /\ out.matrix.data[<<4, 1>>] = PixelMax


(***************************************************************************)
(* contour, lines 218-245. A is a (d, nr) array of non-negative weights;   *)
(* a float is the quotient of two naturals, 0/0 being NaN.                 *)
(***************************************************************************)
MaxWeight == 2
MaxCols == 2
MaxLines == 2

\* The grids (d1, d2) and the numbers of rows of A considered.
ContourGrids == {<<2, 2>>, <<2, 3>>}
ContourRows == {g[1] * g[2] : g \in ContourGrids}

\* The levels traced: 0.9 (the default of process_data's roi_iceberg) and 0.5.
ThrLevels == {[num |-> 9, den |-> 10], [num |-> 1, den |-> 2]}

\* The polygon appended when no contour line is found (line 243).
Sentinel == <<<<0, 0, 0>>, <<0, 0, 0>>, <<0, 0, 0>>>>

\* x / y on float64: a quotient; 0/0 is NaN (numpy warns and goes on).
float_div(x, y) == [num |-> x, den |-> y]
float_isnan(v) == v.den = 0
float_gt(v, level) == ~float_isnan(v) /\ v.num * level.den > level.num * v.den

\* Whether a float division by y raises: Python's scalar division would.
float_div_fails_python(x, y) == y = 0

\* Whether the array division of line 234 raises: numpy's does not.
float_div_fails(x, y) == FALSE

\* A[:, i]
column(A, i) == [shape |-> <<A.shape[1]>>, data |-> [q \in Idx(<<A.shape[1]>>) |-> A.data[<<q[1], i>>]]]

\* Line 232: np.argsort(col)[::-1]. Equal weights may come in any order: the pixel
\* orders in which the weights never increase.
RECURSIVE desc_orders(_, _)
desc_orders(col, S) ==
    IF S = {} THEN {<<>>}
    ELSE LET top == {q \in S : \A r \in S : col.data[<<q>>] >= col.data[<<r>>]}
         IN  UNION {{<<q>> \o rest : rest \in desc_orders(col, S \ {q})} : q \in top}

np_argsort_desc(col) == desc_orders(col, 0..(col.shape[1] - 1))

\* Line 233: np.cumsum(col[indx]**2)
RECURSIVE np_cumsum_sq(_, _, _)
np_cumsum_sq(col, indx, k) ==
    IF k = 0 THEN 0
    ELSE np_cumsum_sq(col, indx, k - 1) + col.data[<<indx[k]>>] * col.data[<<indx[k]>>]

\* Lines 233-236: Bvec, the normalised cumulative sum scattered back to the pixels.
contour_Bvec(col, indx) ==
    LET d == col.shape[1]
        total == np_cumsum_sq(col, indx, d)
    IN  [shape |-> <<d>>,
         data |-> [q \in Idx(<<d>>) |->
                      float_div(np_cumsum_sq(col, indx, CHOOSE k \in 1..d : indx[k] = q[1]),
                                total)]]

\* np.reshape raises ValueError when the sizes differ.
reshape_fails(a, shape) == Cardinality(Idx(a.shape)) # Cardinality(Idx(shape))

\* Line 237 with a row-major reshape.
contour_Bmat_orderC(Bvec, d1, d2) == np_reshape(Bvec, <<d1, d2>>, "C")

\* Line 237: Bmat = np.reshape(Bvec, (d1, d2), order='F')
contour_Bmat(Bvec, d1, d2) == np_reshape(Bvec, <<d1, d2>>, "F")

\* Whether the level separates two neighbouring grid points of Bmat: one above the
\* level and one not (a NaN is never above).
cntr_crossed(Bmat, thr) ==
    \E a, b \in Idx(Bmat.shape) :
        /\ (a[1] = b[1] /\ b[2] = a[2] + 1) \/ (a[2] = b[2] /\ b[1] = a[1] + 1)
        /\ float_gt(Bmat.data[a], thr) # float_gt(Bmat.data[b], thr)

\* Lines 238-239: _cntr.Cntr(y, x, Bmat).trace(thr): the list of the n line segments
\* followed by their n kind arrays; empty when the level is not crossed. How many
\* lines there are is the tracer's affair, and so are their vertices: line k stands
\* here as the two (x, y) vertices (k, k), (k, k + 1), its kinds as the codes 1, 2.
cntr_trace(Bmat, thr) ==
    IF cntr_crossed(Bmat, thr)
    THEN {[k \in 1..(2 * n) |-> IF k <= n THEN <<<<k, k>>, <<k, k + 1>>>> ELSE <<1, 2>>] :
             n \in 1..MaxLines}
    ELSE {<<>>}

\* Lines 240-243 appending nothing when no line is found.
contour_entry_lines_only(cs) == IF Len(cs) > 0 THEN <<cs[1]>> ELSE <<>>

\* Lines 240-243: what is appended to coordinates.
contour_entry(cs) == IF Len(cs) > 0 THEN <<cs[1]>> ELSE <<Sentinel>>

ContourColumns(d) == [Idx(<<d>>) -> 0..MaxWeight]

\* A few columns to build the larger matrices from: all zero, one pixel set, two
\* pixels set to different weights.
FewColumns(d) ==
    {[q \in Idx(<<d>>) |-> 0],
     [q \in Idx(<<d>>) |-> IF q[1] = 1 THEN MaxWeight ELSE 0],
     [q \in Idx(<<d>>) |-> IF q[1] = 0 THEN 2 ELSE IF q[1] = d - 1 THEN 1 ELSE 0]}

MatrixOf(d, cols) ==
    [shape |-> <<d, Len(cols)>>,
     data |-> [qi \in Idx(<<d, Len(cols)>>) |-> cols[qi[2] + 1][<<qi[1]>>]]]

\* Every one-column matrix on the smallest grid, and the matrices of up to MaxCols of
\* the few columns on every grid.
MinRows == CHOOSE d \in ContourRows : \A e \in ContourRows : d <= e

ContourMatrices ==
    {MatrixOf(MinRows, <<c>>) : c \in ContourColumns(MinRows)}
        \cup UNION {UNION {{MatrixOf(d, cols) : cols \in [1..n -> FewColumns(d)]} :
                               n \in 0..MaxCols} :
                     d \in ContourRows}

ContourInputs ==
    {[A |-> A, sparse |-> sp, d1 |-> g[1], d2 |-> g[2], thr |-> thr] :
        A \in ContourMatrices, sp \in BOOLEAN, g \in ContourGrids, thr \in ThrLevels}

InitContour ==
    /\ PureSys
    /\ inp \in ContourInputs
    /\ out = [phase |-> "start"]

\* Lines 220-230: A made dense, d and nr taken, the grid built, coordinates = [].
ContourStart ==
    /\ out.phase = "start"
    /\ out' = [phase |-> "loop", d |-> inp.A.shape[1], nr |-> inp.A.shape[2], i |-> 0,
               coordinates |-> <<>>, trail |-> <<>>, err |-> "none"]
    /\ UNCHANGED <<sysvars, inp>>

\* Lines 231-243: one iteration of the loop. trail keeps, for each column done, the
\* surface and the lines that were computed for it.
ContourColumn ==
    /\ out.phase = "loop"
    /\ out.i < out.nr
    /\ LET col == column(inp.A, out.i)
       IN  \E indx \in np_argsort_desc(col) :
             LET Bvec == contour_Bvec(col, indx)
             IN  IF float_div_fails(np_cumsum_sq(col, indx, out.d), np_cumsum_sq(col, indx, out.d))
                 THEN out' = [out EXCEPT !.phase = "raised", !.err = "ZeroDivisionError"]
                 ELSE IF reshape_fails(Bvec, <<inp.d1, inp.d2>>)
                 THEN out' = [out EXCEPT !.phase = "raised", !.err = "ValueError"]
                 ELSE LET Bmat == contour_Bmat(Bvec, inp.d1, inp.d2)
                      IN  \E cs \in cntr_trace(Bmat, inp.thr) :
                            out' = [out EXCEPT
                                      !.i = out.i + 1,
                                      !.coordinates = out.coordinates \o contour_entry(cs),
                                      !.trail = Append(out.trail,
                                                   [col |-> out.i, Bmat |-> Bmat,
                                                    cs |-> cs])]
    /\ UNCHANGED <<sysvars, inp>>

\* Line 245.
ContourReturn ==
    /\ out.phase = "loop"
    /\ out.i = out.nr
    /\ out' = [out EXCEPT !.phase = "returned"]
    /\ UNCHANGED <<sysvars, inp>>

SpecContour == InitContour /\ [][ContourStart \/ ContourColumn \/ ContourReturn]_vars


(***************************************************************************)
(* Properties of contour.                                                  *)
(***************************************************************************)
\* Column i of A holds no weight at all.
ZeroColumn(i) == \A q \in 0..(inp.A.shape[1] - 1) : inp.A.data[<<q, i>>] = 0

\* C11: contour has one entry per column done, in column order; entry i is the first
\* line the trace returned for column i when it returned any and the sentinel
\* otherwise; at the return every column is done; and nothing is raised unless the
\* number of rows of A is not d1*d2.
C11_OneEntryPerColumn ==
    out.phase # "start" =>
        /\ Len(out.coordinates) = out.i
        /\ Len(out.trail) = out.i
        /\ \A k \in 1..out.i :
              /\ out.trail[k].col = k - 1
              /\ out.coordinates[k] =
                    IF Len(out.trail[k].cs) > 0 THEN out.trail[k].cs[1] ELSE Sentinel
        /\ out.phase = "returned" => out.i = inp.A.shape[2]
        /\ out.phase = "raised" => inp.A.shape[1] # inp.d1 * inp.d2

C11_Witness ==
    /\ out.phase = "returned"
    /\ out.i = 2
    /\ ~ZeroColumn(0)
    /\ out.trail[1].cs = <<>>
    /\ out.coordinates[1] = Sentinel
    /\ Len(out.trail[2].cs) = 4
    /\ out.coordinates[2] = out.trail[2].cs[1]

\* C12: for a column whose weights are all zero the normalised surface is NaN
\* everywhere, the entry of that column is the sentinel, and contour raises nothing
\* (when A has d1*d2 rows).
C12_ZeroColumnSentinel ==
    out.phase # "start" =>
        /\ \A k \in 1..out.i :
              ZeroColumn(k - 1) =>
                  /\ \A ij \in Idx(<<inp.d1, inp.d2>>) : float_isnan(out.trail[k].Bmat.data[ij])
                  /\ out.coordinates[k] = Sentinel
        /\ (out.phase = "raised" /\ inp.A.shape[1] = inp.d1 * inp.d2) =>
              ~ZeroColumn(out.i)

C12_Witness ==
    /\ out.phase = "returned"
    /\ out.i = 2
    /\ ZeroColumn(1)
    /\ ~ZeroColumn(0)
    /\ out.coordinates[2] = Sentinel
    /\ out.coordinates[1] # Sentinel


\* The weight of pixel q in column i of A.
Weight(i, q) == inp.A.data[<<q, i>>]

\* The sum of the squared weights of the pixels below n of column i whose weight is
\* above the bound.
RECURSIVE SqSumAbove(_, _, _)
SqSumAbove(i, bound, n) ==
    IF n = 0 THEN 0
    ELSE SqSumAbove(i, bound, n - 1)
            + (IF Weight(i, n - 1) > bound THEN Weight(i, n - 1) * Weight(i, n - 1) ELSE 0)

\* The pixels of column i with the weight of pixel q.
Ties(i, q) == {r \in 0..(inp.A.shape[1] - 1) : Weight(i, r) = Weight(i, q)}

\* C17: for every column done whose total squared weight is positive, the value at
\* grid position (i, j) belongs to pixel q = i + d1*j and is the squared weight of the
\* pixels ranked at or before q in an order of descending weight (all the pixels of
\* larger weight, and q with m - 1 of the pixels of its own weight, m different for
\* each of them) over the total; every value lies in (0, 1], a pixel of the least
\* weight has exactly 1, and a larger weight never has the larger value.
C17_EnergyRank ==
    out.phase # "start" =>
        \A k \in 1..out.i :
            LET c == k - 1
                d == inp.A.shape[1]
                total == SqSumAbove(c, -1, d)
                val(q) == out.trail[k].Bmat.data[<<q % inp.d1, q \div inp.d1>>]
                P == 0..(d - 1)
            IN  total > 0 =>
                  /\ \A q \in P :
                        /\ val(q).den = total
                        /\ \E m \in 1..Cardinality(Ties(c, q)) :
                              val(q).num = SqSumAbove(c, Weight(c, q), d)
                                              + m * Weight(c, q) * Weight(c, q)
                        /\ val(q).num > 0
                        /\ val(q).num <= val(q).den
                  /\ \A q, r \in P :
                        /\ (q # r /\ Weight(c, q) = Weight(c, r) /\ Weight(c, q) > 0) =>
                              val(q) # val(r)
                        /\ Weight(c, q) > Weight(c, r) => val(q).num <= val(r).num
                  /\ \E q \in P :
                        /\ \A r \in P : Weight(c, q) <= Weight(c, r)
                        /\ val(q).num = val(q).den

C17_Witness ==
    /\ out.phase = "returned"
    /\ out.i = 1
    /\ inp.d1 = 2 /\ inp.d2 = 2
    /\ Weight(0, 0) = 0 /\ Weight(0, 1) = 2 /\ Weight(0, 2) = 1 /\ Weight(0, 3) = 1
    /\ out.trail[1].Bmat.data[<<1, 0>>] = [num |-> 4, den |-> 6]
    /\ out.trail[1].Bmat.data[<<0, 1>>] = [num |-> 6, den |-> 6]
    /\ out.trail[1].Bmat.data[<<1, 1>>] = [num |-> 5, den |-> 6]
    /\ out.trail[1].Bmat.data[<<0, 0>>] = [num |-> 6, den |-> 6]

====
